---- MODULE Spec2Model ----
(***************************************************************************)
(* Model of generate.py, the single-file static site generator.            *)
(*                                                                         *)
(* Strings are sequences of one-character strings, so that slugify,        *)
(* html.escape, canonical_for and the path arithmetic of pathlib are       *)
(* computed as the code computes them.  A file of the output directory is  *)
(* named by the sequence of its path segments below the output directory.  *)
(***************************************************************************)
EXTENDS Integers, Sequences, FiniteSets, TLC

(***************************************************************************)
(* Bounds                                                                  *)
(***************************************************************************)
MaxCatalog == 3

(***************************************************************************)
(* Characters                                                              *)
(***************************************************************************)
\* printable ASCII 32..126 in code-point order; Ascii[k] has code point k + 31
\* (code point 96, the grave accent, is spelled out)
Ascii ==
  << " ", "!", "\"", "#", "$", "%", "&", "'", "(", ")", "*", "+", ",", "-", ".", "/",
     "0", "1", "2", "3", "4", "5", "6", "7", "8", "9", ":", ";", "<", "=", ">", "?",
     "@", "A", "B", "C", "D", "E", "F", "G", "H", "I", "J", "K", "L", "M", "N", "O",
     "P", "Q", "R", "S", "T", "U", "V", "W", "X", "Y", "Z", "[", "\\", "]", "^", "_",
     "GRAVE", "a", "b", "c", "d", "e", "f", "g", "h", "i", "j", "k", "l", "m", "n", "o",
     "p", "q", "r", "s", "t", "u", "v", "w", "x", "y", "z", "{", "|", "}", "~" >>

OrdOf == [c \in { Ascii[k] : k \in 1..Len(Ascii) } |->
            31 + CHOOSE k \in 1..Len(Ascii) : Ascii[k] = c]

\* ord(c)
Ord(c) == OrdOf[c]

IsUpper(c) == Ord(c) >= 65 /\ Ord(c) <= 90

IsLowerOrDigit(c) == \/ (Ord(c) >= 97 /\ Ord(c) <= 122)
                     \/ (Ord(c) >= 48 /\ Ord(c) <= 57)

\* str.lower() on one character
LowerChar(c) == IF IsUpper(c) THEN Ascii[Ord(c) + 32 - 31] ELSE c

\* str.upper() on one character
UpperChar(c) == IF Ord(c) >= 97 /\ Ord(c) <= 122 THEN Ascii[Ord(c) - 32 - 31] ELSE c

lower(s) == [k \in 1..Len(s) |-> LowerChar(s[k])]

upper(s) == [k \in 1..Len(s) |-> UpperChar(s[k])]

RECURSIVE Concat(_)
\* "".join(parts)
Concat(parts) == IF parts = << >> THEN << >> ELSE Head(parts) \o Concat(Tail(parts))

RECURSIVE LStrip(_, _)
\* remove the leading characters of s that are in chars
LStrip(s, chars) ==
  IF s # << >> /\ Head(s) \in chars THEN LStrip(Tail(s), chars) ELSE s

RECURSIVE RStrip(_, _)
\* remove the trailing characters of s that are in chars
RStrip(s, chars) ==
  IF s # << >> /\ s[Len(s)] \in chars THEN RStrip(SubSeq(s, 1, Len(s) - 1), chars) ELSE s

Strip(s, chars) == RStrip(LStrip(s, chars), chars)

Whitespace == {" "}

StartsWith(s, p) == Len(s) >= Len(p) /\ SubSeq(s, 1, Len(p)) = p

\* s < t in the string order of Python (code points, shorter prefix first)
RECURSIVE StrLess(_, _)
StrLess(s, t) ==
  IF t = << >> THEN FALSE
  ELSE IF s = << >> THEN TRUE
  ELSE IF Head(s) # Head(t) THEN Ord(Head(s)) < Ord(Head(t))
  ELSE StrLess(Tail(s), Tail(t))

StrLeq(s, t) == s = t \/ StrLess(s, t)

(***************************************************************************)
(* String literals of the program                                          *)
(***************************************************************************)
Slash == << "/" >>
Hyphen == << "-" >>
Dot == << "." >>
HttpsScheme == << "h", "t", "t", "p", "s", ":", "/", "/" >>
HttpScheme == << "h", "t", "t", "p", ":", "/", "/" >>
S_cost == << "c", "o", "s", "t" >>
S_howto == << "h", "o", "w", "-", "t", "o" >>
S_contact == << "c", "o", "n", "t", "a", "c", "t" >>
IndexHtml == << "i", "n", "d", "e", "x", ".", "h", "t", "m", "l" >>
RobotsTxt == << "r", "o", "b", "o", "t", "s", ".", "t", "x", "t" >>
SitemapXml == << "s", "i", "t", "e", "m", "a", "p", ".", "x", "m", "l" >>
image_filename == << "p", "i", "c", "t", "u", "r", "e", ".", "p", "n", "g" >>

U_home == Slash
U_cost == Slash \o S_cost \o Slash
U_howto == Slash \o S_howto \o Slash
U_contact == Slash \o S_contact \o Slash

(***************************************************************************)
(* Helpers of generate.py                                                  *)
(***************************************************************************)
\* html.escape(s, quote=True)
EscChar(c) ==
  CASE c = "&" -> << "&", "a", "m", "p", ";" >>
    [] c = "<" -> << "&", "l", "t", ";" >>
    [] c = ">" -> << "&", "g", "t", ";" >>
    [] c = "\"" -> << "&", "q", "u", "o", "t", ";" >>
    [] c = "'" -> << "&", "#", "x", "2", "7", ";" >>
    [] OTHER -> << c >>

esc(s) == Concat([k \in 1..Len(s) |-> EscChar(s[k])])

\* re.sub(r"&", " and ", s)
AmpToAnd(s) ==
  Concat([k \in 1..Len(s) |->
            IF s[k] = "&" THEN << " ", "a", "n", "d", " " >> ELSE << s[k] >>])

\* re.sub(r"[^a-z0-9]+", "-", s): every maximal run of other characters
\* becomes one hyphen
NonAlnumRunsToHyphen(s) ==
  Concat([k \in 1..Len(s) |->
            IF IsLowerOrDigit(s[k]) THEN << s[k] >>
            ELSE IF k > 1 /\ ~IsLowerOrDigit(s[k - 1]) THEN << >>
            ELSE Hyphen])

\* re.sub(r"-{2,}", "-", s)
CollapseHyphens(s) ==
  Concat([k \in 1..Len(s) |->
            IF s[k] = "-" /\ k > 1 /\ s[k - 1] = "-" THEN << >> ELSE << s[k] >>])

\* the slug without the final strip("-")
slugify_KeepOuterHyphens(s) ==
  CollapseHyphens(NonAlnumRunsToHyphen(AmpToAnd(lower(Strip(s, Whitespace)))))

slugify(s) ==
  Strip(CollapseHyphens(NonAlnumRunsToHyphen(AmpToAnd(lower(Strip(s, Whitespace))))),
        {"-"})


(***************************************************************************)
(* Floating point.  A catalog factor is a Python float and the cost bounds *)
(* are int(cost_low * col), int(cost_high * col): an IEEE 754 double       *)
(* product, rounded to nearest even, then truncated.  Naturals too wide    *)
(* for the checker are sequences of limbs (digits to the base LimbBase),   *)
(* most significant first; a positive double is its significand m and      *)
(* exponent e, the value m * 2^e.                                          *)
(***************************************************************************)
MantissaBits == 53

LimbBits == 12

LimbBase == 2^LimbBits

\* limbs of extra binary places carried through the division by 100
GuardLimbs == 6

RECURSIVE LimbsOfNat(_)
LimbsOfNat(n) ==
  IF n = 0 THEN << >> ELSE LimbsOfNat(n \div LimbBase) \o << n % LimbBase >>

RECURSIVE NatOfLimbs(_)
NatOfLimbs(b) ==
  IF b = << >> THEN 0
  ELSE LimbBase * NatOfLimbs(SubSeq(b, 1, Len(b) - 1)) + b[Len(b)]

Zeros(n) == [k \in 1..n |-> 0]

StripZeros(b) == LStrip(b, {0})

RECURSIVE MulCarry(_, _, _)
\* b * k + carry
MulCarry(b, k, carry) ==
  IF b = << >> THEN LimbsOfNat(carry)
  ELSE LET v == b[Len(b)] * k + carry
       IN  MulCarry(SubSeq(b, 1, Len(b) - 1), k, v \div LimbBase) \o << v % LimbBase >>

MulSmall(b, k) == StripZeros(MulCarry(b, k, 0))

RECURSIVE DivStep(_, _, _, _, _)
\* long division of the limbs b[k..] by d, given quotient q and remainder r so far
DivStep(b, k, d, q, r) ==
  IF k > Len(b) THEN [q |-> StripZeros(q), r |-> r]
  ELSE LET v == LimbBase * r + b[k]
       IN  DivStep(b, k + 1, d, q \o << v \div d >>, v % d)

\* quotient and remainder of b by d
DivSmall(b, d) == DivStep(b, 1, d, << >>, 0)

RECURSIVE IntBitLen(_)
IntBitLen(n) == IF n = 0 THEN 0 ELSE 1 + IntBitLen(n \div 2)

\* number of significant bits of b (no leading zero limb)
BitLen(b) == IF b = << >> THEN 0 ELSE LimbBits * (Len(b) - 1) + IntBitLen(b[1])

RECURSIVE ShiftRight(_, _, _)
\* b with its n lowest bits cut off; sticky tells whether anything nonzero was cut
ShiftRight(b, n, sticky) ==
  IF n = 0 THEN [q |-> b, sticky |-> sticky]
  ELSE LET s == IF n > LimbBits THEN LimbBits ELSE n
           d == DivSmall(b, 2^s)
       IN  ShiftRight(d.q, n - s, sticky \/ d.r # 0)

\* round b (no leading zero) to MantissaBits bits, to nearest, ties to even;
\* sticky says that a nonzero part below b was already cut off
RoundToMantissa(b, sticky) ==
  IF BitLen(b) <= MantissaBits THEN [m |-> b, drop |-> 0]
  ELSE LET drop == BitLen(b) - MantissaBits
           sh == ShiftRight(b, drop - 1, sticky)
           last == DivSmall(sh.q, 2)
           keep == last.q
           up == last.r = 1 /\ (sh.sticky \/ keep[Len(keep)] % 2 = 1)
           m == IF up THEN MulCarry(keep, 1, 1) ELSE keep
       IN  IF BitLen(m) > MantissaBits
             THEN [m |-> DivSmall(m, 2).q, drop |-> drop + 1]
             ELSE [m |-> m, drop |-> drop]

\* float(col_raw) for the decimal text c / 100, c >= 0
PyFloat(c) ==
  LET d == DivSmall(LimbsOfNat(c) \o Zeros(GuardLimbs), 100)
      r == RoundToMantissa(d.q, d.r # 0)
  IN  [m |-> r.m, e |-> r.drop - GuardLimbs * LimbBits]

\* k * f for an int k and a float f
FloatMul(k, f) ==
  LET r == RoundToMantissa(MulSmall(f.m, k), FALSE)
  IN  [m |-> r.m, e |-> f.e + r.drop]

\* int(f): the integral part
PyInt(f) ==
  IF f.e >= 0 THEN NatOfLimbs(f.m) * 2^f.e
  ELSE NatOfLimbs(ShiftRight(f.m, 0 - f.e, FALSE).q)

RECURSIVE DecStr(_)
\* str(n) for n >= 0
DecStr(n) ==
  IF n < 10 THEN << Ascii[n + 17] >> ELSE DecStr(n \div 10) \o << Ascii[(n % 10) + 17] >>

\* Path(out) / a / b / ...: pathlib drops an empty segment
PathJoin(segs) == SelectSeq(segs, LAMBDA x : x # << >>)

\* the file a page is written to: out / seg1 / ... / "index.html"
PageFile(segs) == PathJoin(segs \o << IndexHtml >>)

(***************************************************************************)
(* Inputs: the catalog (cities.csv as load_cities_from_csv returns it),    *)
(* the site mode (sys.argv[1]) and the environment                         *)
(***************************************************************************)
City_Reno == << "R", "e", "n", "o" >>
City_Austin == << "A", "u", "s", "t", "i", "n" >>
City_abilene == << "a", "b", "i", "l", "e", "n", "e" >>
City_AUSTIN == << "A", "U", "S", "T", "I", "N" >>
City_How == << "H", "o", "w" >>
St_NV == << "N", "V" >>
St_TX == << "T", "X" >>
St_TO == << "T", "O" >>

\* one row of the catalog; col is the cost-of-living factor in hundredths
Entry(city, st, col) == [city |-> city, st |-> st, col |-> col]

\* rows of cities.csv as csv.DictReader yields them
CsvRows ==
  { Entry(City_Reno \o << " " >>, lower(St_NV), 120),
    Entry(City_Austin, << " " >> \o St_TX, 110),
    Entry(City_abilene, St_TX, 113),
    Entry(City_AUSTIN, St_TX, 100),
    Entry(City_How, St_TO, 100) }

\* a row as the loader stores it: city stripped, state stripped and upper-cased
load_row(e) ==
  Entry(Strip(e.city, Whitespace), upper(Strip(e.st, Whitespace)), e.col)

\* the catalogs of at most MaxCatalog different rows, in any order
Catalogs ==
  UNION { { c \in [1..n -> { load_row(e) : e \in CsvRows }] :
              \A a, b \in 1..n : a # b => c[a] # c[b] } : n \in 0..MaxCatalog }

VALID_MODES == {"regular", "cost", "state", "subdomain", "regular_city_only"}

ModeArgs == VALID_MODES \cup {"bogus"}

Host_site == << "s", "i", "t", "e", ".", "o", "r", "g" >>
Host_example == << "e", "x", "a", "m", "p", "l", "e", ".", "c", "o", "m" >>

\* raw values of the environment variables SITE_ORIGIN and SUBDOMAIN_BASE
EnvSiteOrigins == { << >>, HttpsScheme \o Host_site \o Slash }

EnvSubdomainBases == { << >>, upper(Host_example) \o Dot }

\* (os.environ.get("SITE_ORIGIN") or "").rstrip("/")
NormOrigin(raw) == RStrip(raw, {"/"})

\* (os.environ.get("SUBDOMAIN_BASE") or "").strip().lower().strip(".")
NormSubdomainBase(raw) == Strip(lower(Strip(raw, Whitespace)), {"."})

(***************************************************************************)
(* State                                                                   *)
(***************************************************************************)
VARIABLES
  SITE_MODE,       \* sys.argv[1]
  CITIES,          \* the loaded catalog
  SITE_ORIGIN,     \* normalised environment value, << >> when not set
  SUBDOMAIN_BASE,  \* normalised environment value, << >> when not set
  imagePresent,    \* picture.png exists next to generate.py
  COPY_IDX,        \* the copy variant the module level resolved
  today,           \* date.today() of the invocation, a day number
  files,           \* the output directory: file path |-> content
  files0,          \* the output directory as it was before the invocation
  wrangler,        \* wrangler.jsonc next to generate.py, FALSE while not written
  urls,            \* the local list urls of the running build function
  written,         \* the page files written by write_text, in order
  i,               \* position of the running for loop
  j,               \* position of the inner for loop of build_state
  arg,             \* the argument of a helper called on its own
  result,          \* what that call returned
  pc               \* the statement main() executes next

vars == << SITE_MODE, CITIES, SITE_ORIGIN, SUBDOMAIN_BASE, imagePresent, COPY_IDX, today,
           files, files0, wrangler, urls, written, i, j, arg, result, pc >>

\* what no statement of the program changes
config == << SITE_MODE, CITIES, SITE_ORIGIN, SUBDOMAIN_BASE, imagePresent, COPY_IDX, today, files0,
             arg, result >>

(***************************************************************************)
(* MODE + URLS                                                             *)
(***************************************************************************)
COPY_VARIANT_BY_MODE ==
  [m \in {"regular", "cost", "state", "subdomain", "regular_city_only"} |->
     CASE m = "regular" -> 1
       [] m = "cost" -> 2
       [] m = "state" -> 3
       [] m = "subdomain" -> 4
       [] m = "regular_city_only" -> 5]

IsDigit(c) == Ord(c) >= 48 /\ Ord(c) <= 57

\* str.isdigit(): not empty and digits only
isdigit(raw) == raw # << >> /\ \A k \in 1..Len(raw) : IsDigit(raw[k])

RECURSIVE IntOfDigits(_)
\* int(raw) for a string of digits
IntOfDigits(raw) ==
  IF raw = << >> THEN 0
  ELSE 10 * IntOfDigits(SubSeq(raw, 1, Len(raw) - 1)) + (Ord(raw[Len(raw)]) - 48)

Max(a, b) == IF a >= b THEN a ELSE b

Min(a, b) == IF a <= b THEN a ELSE b

\* resolve_copy_idx falling back to the last variant for a mode it does not know
resolve_copy_idx_DefaultLast(mode, env) ==
  LET raw == Strip(env, Whitespace)
      v == IF isdigit(raw) THEN IntOfDigits(raw)
           ELSE IF mode \in DOMAIN COPY_VARIANT_BY_MODE THEN COPY_VARIANT_BY_MODE[mode] ELSE 5
  IN  Max(1, Min(5, v)) - 1

\* resolve_copy_idx(mode), env the value of COPY_VARIANT in the environment
\* (empty when not set)
resolve_copy_idx(mode, env) ==
  LET raw == Strip(env, Whitespace)
      v == IF isdigit(raw) THEN IntOfDigits(raw)
           ELSE IF mode \in DOMAIN COPY_VARIANT_BY_MODE THEN COPY_VARIANT_BY_MODE[mode] ELSE 1
  IN  Max(1, Min(5, v)) - 1

rel_city_path_regular(city, st) == Slash \o slugify(city) \o Hyphen \o slugify(st) \o Slash

rel_city_path_state(city, st) == Slash \o slugify(st) \o Slash \o slugify(city) \o Slash

RECURSIVE RemoveAll(_, _)
\* s.replace(pat, "")
RemoveAll(s, pat) ==
  IF s = << >> THEN << >>
  ELSE IF StartsWith(s, pat) THEN RemoveAll(SubSeq(s, Len(pat) + 1, Len(s)), pat)
  ELSE << Head(s) >> \o RemoveAll(Tail(s), pat)

RECURSIVE UpToSlash(_)
\* s.split("/")[0]
UpToSlash(s) ==
  IF s = << >> \/ Head(s) = "/" THEN << >> ELSE << Head(s) >> \o UpToSlash(Tail(s))

\* SITE_ORIGIN.replace("https://", "").replace("http://", "").split("/")[0]
OriginHost(origin) == UpToSlash(RemoveAll(RemoveAll(origin, HttpsScheme), HttpScheme))

\* the city origin built from SUBDOMAIN_BASE alone
abs_city_origin_subdomain_BaseOnly(city, st) ==
  LET slug == slugify(city) \o Hyphen \o slugify(st)
  IN  IF SUBDOMAIN_BASE = << >> THEN Slash \o slug \o Slash
      ELSE HttpsScheme \o slug \o Dot \o SUBDOMAIN_BASE \o Slash

\* the city origin taken from the host of SITE_ORIGIN whenever one is set
abs_city_origin_subdomain_OriginFirst(city, st) ==
  LET slug == slugify(city) \o Hyphen \o slugify(st)
      base == IF SITE_ORIGIN # << >> THEN OriginHost(SITE_ORIGIN)
              ELSE SUBDOMAIN_BASE
  IN  IF base = << >> THEN Slash \o slug \o Slash
      ELSE HttpsScheme \o slug \o Dot \o base \o Slash

abs_city_origin_subdomain(city, st) ==
  LET slug == slugify(city) \o Hyphen \o slugify(st)
      base == IF SUBDOMAIN_BASE # << >> THEN SUBDOMAIN_BASE
              ELSE IF SITE_ORIGIN # << >> THEN OriginHost(SITE_ORIGIN)
              ELSE << >>
  IN  IF base = << >> THEN Slash \o slug \o Slash
      ELSE HttpsScheme \o slug \o Dot \o base \o Slash

href_home(mode) ==
  IF mode = "subdomain"
    THEN (IF SITE_ORIGIN # << >> THEN SITE_ORIGIN \o Slash ELSE Slash)
    ELSE Slash

\* href_city without its dispatch on the mode
href_city_AlwaysRegular(mode, city, st) == rel_city_path_regular(city, st)

href_city(mode, city, st) ==
  IF mode = "state" THEN rel_city_path_state(city, st)
  ELSE IF mode = "subdomain" THEN abs_city_origin_subdomain(city, st)
  ELSE rel_city_path_regular(city, st)

\* the Cost link as a path on whatever host serves the page
href_cost_index_Relative(mode) == U_cost

href_cost_index(mode) ==
  IF mode = "subdomain" /\ SITE_ORIGIN # << >> THEN SITE_ORIGIN \o U_cost ELSE U_cost

href_howto_index(mode) ==
  IF mode = "subdomain" /\ SITE_ORIGIN # << >> THEN SITE_ORIGIN \o U_howto ELSE U_howto

href_contact(mode) ==
  IF mode = "subdomain" /\ SITE_ORIGIN # << >> THEN SITE_ORIGIN \o U_contact ELSE U_contact

href_state(mode, st) == Slash \o slugify(st) \o Slash

\* canonical_for without its test for an absolute URL
canonical_for_AlwaysPrefix(mode, path_or_abs) ==
  IF SITE_ORIGIN # << >> THEN SITE_ORIGIN \o path_or_abs ELSE path_or_abs

canonical_for(mode, path_or_abs) ==
  IF StartsWith(path_or_abs, HttpScheme) \/ StartsWith(path_or_abs, HttpsScheme)
    THEN path_or_abs
  ELSE IF SITE_ORIGIN # << >> THEN SITE_ORIGIN \o path_or_abs
  ELSE path_or_abs

\* f"/cost/{slugify(city)}-{slugify(st)}/"
cost_city_path(city, st) ==
  Slash \o S_cost \o Slash \o slugify(city) \o Hyphen \o slugify(st) \o Slash

cost_city_href(mode, city, st) ==
  IF mode = "subdomain" /\ SITE_ORIGIN # << >>
    THEN SITE_ORIGIN \o cost_city_path(city, st)
    ELSE cost_city_path(city, st)

(***************************************************************************)
(* Grouping and sorting                                                    *)
(***************************************************************************)
\* a sort key that compares the city names as written
CityKey_CaseSensitive(t) == t.city

\* the sort key of cities_by_state: t[0].lower()
CityKey(t) == lower(t.city)

\* list.sort(key=...) is stable: an element goes after every element whose
\* key is not greater
RECURSIVE InsertByKey(_, _)
InsertByKey(sorted, t) ==
  IF sorted = << >> THEN << t >>
  ELSE IF StrLess(CityKey(t), CityKey(Head(sorted))) THEN << t >> \o sorted
  ELSE << Head(sorted) >> \o InsertByKey(Tail(sorted), t)

RECURSIVE SortCities(_)
SortCities(list) ==
  IF list = << >> THEN << >>
  ELSE InsertByKey(SortCities(SubSeq(list, 1, Len(list) - 1)), list[Len(list)])

\* the keys of the dict m in insertion order: first appearance in the catalog
RECURSIVE StateKeys(_)
StateKeys(cities) ==
  IF cities = << >> THEN << >>
  ELSE LET rest == StateKeys(SubSeq(cities, 1, Len(cities) - 1))
           st == cities[Len(cities)].st
       IN  IF \E k \in 1..Len(rest) : rest[k] = st THEN rest ELSE Append(rest, st)

\* by_state.items(): one (st, city_list) pair per state code
cities_by_state(cities) ==
  LET keys == StateKeys(cities)
  IN  [k \in 1..Len(keys) |->
         [st |-> keys[k],
          cities |-> SortCities(SelectSeq(cities, LAMBDA t : t.st = keys[k]))]]

\* sorted(by_state.keys())
RECURSIVE InsertStr(_, _)
InsertStr(sorted, x) ==
  IF sorted = << >> THEN << x >>
  ELSE IF StrLess(x, Head(sorted)) THEN << x >> \o sorted
  ELSE << Head(sorted) >> \o InsertStr(Tail(sorted), x)

RECURSIVE SortedStrs(_)
SortedStrs(list) ==
  IF list = << >> THEN << >>
  ELSE InsertStr(SortedStrs(SubSeq(list, 1, Len(list) - 1)), list[Len(list)])


(***************************************************************************)
(* Pages.  A page is recorded by the factory that made it, the canonical   *)
(* URL base_html publishes and the hrefs of the link list of its body.     *)
(***************************************************************************)
cost_low == 300

cost_high == 800

Dollar == << "$" >>

\* CONFIG.location_cost_h2 up to its {City, State} placeholder
location_cost_h2 ==
  << "H", "o", "w", " ", "M", "u", "c", "h", " ", "D", "o", "e", "s", " ",
     "W", "o", "o", "d", "p", "e", "c", "k", "e", "r", " ", "D", "a", "m", "a", "g", "e", " ",
     "R", "e", "p", "a", "i", "r", " ", "C", "o", "s", "t", " ", "i", "n", " " >>

\* the two figures location_cost_section puts into its paragraph; col is the
\* catalog text in hundredths, float(col_raw) is what the loader made of it
\* h2 is the heading as emitted (its text goes through esc); place is the
\* text the paragraph gets for its {City, State} placeholder, which is put
\* into <p> as it is
location_cost_section(city, st, col) ==
  [cost_lo |-> Dollar \o DecStr(PyInt(FloatMul(cost_low, PyFloat(col)))),
   cost_hi |-> Dollar \o DecStr(PyInt(FloatMul(cost_high, PyFloat(col)))),
   h2 |-> esc(location_cost_h2 \o city \o << ",", " " >> \o st \o << "?" >>),
   place |-> city \o << ",", " " >> \o st]

\* CONFIG.h1_title
h1_title ==
  << "W", "o", "o", "d", "p", "e", "c", "k", "e", "r", " ", "D", "a", "m",
     "a", "g", "e", " ", "R", "e", "p", "a", "i", "r", "/", "W", "o", "o",
     "d", "p", "e", "c", "k", "e", "r", " ", "H", "o", "l", "e", " ", "R",
     "e", "p", "a", "i", "r", "/", "S", "i", "d", "i", "n", "g", " ", "R",
     "e", "p", "a", "i", "r", " ", "S", "e", "r", "v", "i", "c", "e", "s" >>

\* CONFIG.h1_short
h1_short ==
  << "W", "o", "o", "d", "p", "e", "c", "k", "e", "r", " ", "D", "a", "m",
     "a", "g", "e", " ", "R", "e", "p", "a", "i", "r", " ", "S", "e", "r",
     "v", "i", "c", "e", "s" >>

\* CONFIG.cost_title
cost_title ==
  << "W", "o", "o", "d", "p", "e", "c", "k", "e", "r", " ", "D", "a", "m",
     "a", "g", "e", " ", "R", "e", "p", "a", "i", "r", " ", "C", "o", "s",
     "t" >>

\* CONFIG.howto_title
howto_title ==
  << "H", "o", "w", " ", "W", "o", "o", "d", "p", "e", "c", "k", "e", "r",
     " ", "D", "a", "m", "a", "g", "e", " ", "R", "e", "p", "a", "i", "r",
     " ", "W", "o", "r", "k", "s" >>

\* the h1 of contact_page_html
contact_h1 ==
  << "G", "e", "t", " ", "Y", "o", "u", "r", " ", "F", "r", "e", "e", " ",
     "E", "s", "t", "i", "m", "a", "t", "e" >>

\* US_STATE_NAMES.get(abbr.upper(), abbr.upper()); of the table, the entries
\* of the states of the catalog
state_full(abbr) ==
  LET a == upper(abbr)
  IN  IF a = << "N", "V" >> THEN << "N", "e", "v", "a", "d", "a" >>
      ELSE IF a = << "T", "X" >> THEN << "T", "e", "x", "a", "s" >>
      ELSE a

\* f"{head} in {city}, {st}"
InCityState(head, city, st) == head \o << " ", "i", "n", " " >> \o city \o << ",", " " >> \o st

\* the one character U+2026, spelled out
Ellipsis == << "ELLIPSIS" >>

TitleMax == 70

\* clamp_title cutting at max_chars, not one before it
clamp_title_CutAtMax(title, max_chars) ==
  IF Len(title) <= max_chars THEN title
  ELSE RStrip(SubSeq(title, 1, max_chars), Whitespace) \o Ellipsis

clamp_title(title, max_chars) ==
  IF Len(title) <= max_chars THEN title
  ELSE RStrip(SubSeq(title, 1, max_chars - 1), Whitespace) \o Ellipsis

\* an <a>: what it links to and the href it carries
Anchor(to, href) == [to |-> to, href |-> esc(href)]

nav_html(mode, show_cost, show_howto, show_contact) ==
  << Anchor("home", href_home(mode)) >>
    \o (IF show_cost THEN << Anchor("cost", href_cost_index(mode)) >> ELSE << >>)
    \o (IF show_howto THEN << Anchor("howto", href_howto_index(mode)) >> ELSE << >>)
    \o (IF show_contact THEN << Anchor("contact", href_contact(mode)) >> ELSE << >>)

\* the call-to-action button, then the footer links
footer_block(mode, show_cta, show_cost, show_howto) ==
  (IF show_cta THEN << Anchor("contact", href_contact(mode)) >> ELSE << >>)
    \o << Anchor("home", href_home(mode)) >>
    \o (IF show_cost THEN << Anchor("cost", href_cost_index(mode)) >> ELSE << >>)
    \o (IF show_howto THEN << Anchor("howto", href_howto_index(mode)) >> ELSE << >>)

\* the keyword arguments of make_page that default to True
DefaultFlags ==
  [show_footer_cta |-> TRUE, nav_show_cost |-> TRUE, nav_show_howto |-> TRUE,
   nav_show_contact |-> TRUE, footer_show_cost |-> TRUE, footer_show_howto |-> TRUE]

\* the flags build_regular_city_only passes for its home and location pages
CityOnlyFlags ==
  [show_footer_cta |-> TRUE, nav_show_cost |-> FALSE, nav_show_howto |-> FALSE,
   nav_show_contact |-> TRUE, footer_show_cost |-> FALSE, footer_show_howto |-> FALSE]

\* h1 = clamp_title(h1, 70); title = h1; base_html and header_block escape them
make_page(mode, kind, h1, canonical, links, flags) ==
  [kind |-> kind, canonical |-> esc(canonical_for(mode, canonical)), links |-> links,
   title |-> esc(clamp_title(h1, TitleMax)),
   h1 |-> esc(clamp_title(h1, TitleMax)),
   brand |-> esc(href_home(mode)),
   nav |-> nav_html(mode, flags.nav_show_cost, flags.nav_show_howto, flags.nav_show_contact),
   footer |-> footer_block(mode, flags.show_footer_cta, flags.footer_show_cost,
                           flags.footer_show_howto)]

homepage_html(mode) ==
  make_page(mode, "home", h1_title, U_home,
            [k \in 1..Len(CITIES) |-> esc(href_city(mode, CITIES[k].city, CITIES[k].st))],
            DefaultFlags)
    @@ [copy |-> COPY_IDX]

contact_page_html(mode) ==
  make_page(mode, "contact", contact_h1, U_contact, << >>,
            [DefaultFlags EXCEPT !.show_footer_cta = FALSE])

howto_page_html(mode) ==
  make_page(mode, "howto", howto_title, U_howto, << >>, DefaultFlags)

city_page_html(mode, city, st, col, canonical) ==
  make_page(mode, "city", clamp_title(InCityState(h1_short, city, st), TitleMax),
            canonical, << >>, DefaultFlags)
    @@ [cost |-> location_cost_section(city, st, col), copy |-> COPY_IDX]

cost_page_html(mode, include_city_index) ==
  make_page(mode, "cost", cost_title, U_cost,
            IF include_city_index
              THEN [k \in 1..Len(CITIES) |->
                      esc(cost_city_href(mode, CITIES[k].city, CITIES[k].st))]
              ELSE << >>,
            DefaultFlags)

cost_city_page_html(mode, city, st, col) ==
  make_page(mode, "cost_city", clamp_title(InCityState(cost_title, city, st), TitleMax),
            cost_city_path(city, st), << >>, DefaultFlags)
    @@ [cost |-> location_cost_section(city, st, col), copy |-> COPY_IDX]

state_homepage_html(mode) ==
  LET by_state == cities_by_state(CITIES)
      states == SortedStrs([k \in 1..Len(by_state) |-> by_state[k].st])
  IN  make_page(mode, "state_home", h1_title, U_home,
                [k \in 1..Len(states) |-> esc(href_state(mode, states[k]))],
                DefaultFlags)
        @@ [copy |-> COPY_IDX]

state_page_html(mode, st, cities) ==
  make_page(mode, "state",
            clamp_title(h1_short \o << " ", "i", "n", " " >> \o state_full(st), TitleMax),
            Slash \o slugify(st) \o Slash,
            [k \in 1..Len(cities) |-> esc(href_city(mode, cities[k].city, cities[k].st))],
            DefaultFlags)

\* the home page build_regular_city_only composes itself
city_only_homepage(mode) ==
  make_page(mode, "home", h1_title, U_home,
            [k \in 1..Len(CITIES) |-> esc(href_city(mode, CITIES[k].city, CITIES[k].st))],
            CityOnlyFlags)
    @@ [copy |-> COPY_IDX]

\* the location page build_regular_city_only composes itself
city_only_city_page(mode, city, st, col, canonical) ==
  make_page(mode, "city", InCityState(h1_short, city, st), canonical, << >>, CityOnlyFlags)
    @@ [cost |-> location_cost_section(city, st, col), copy |-> COPY_IDX]

\* wrangler.jsonc: the one field that is not a literal
wrangler_content == [compatibility_date |-> today]

\* robots.txt carrying the day of the build
robots_txt_Dated == [kind |-> "robots", date |-> today]

robots_txt == [kind |-> "robots"]

\* one <url><loc> per url, escaped
sitemap_xml(us) == [kind |-> "sitemap", locs |-> [k \in 1..Len(us) |-> esc(us[k])]]

(***************************************************************************)
(* Output directory                                                        *)
(***************************************************************************)
NoFiles == [p \in {} |-> [kind |-> "none"]]

\* what an earlier build may have left in the output directory
StaleSite ==
  [p \in { PageFile(<< >>), PageFile(<< S_cost >>), PageFile(<< S_howto >>) }
     |-> [kind |-> "stale"]]

\* write_text(path, content)
write_text(fs, path, content) ==
  [p \in DOMAIN fs \cup {path} |-> IF p = path THEN content ELSE fs[p]]

\* the catalog row a page renders; NoRef for a page that renders none, and a
\* row without city for the page of a state
NoRef == Entry(<< >>, << >>, 0)

StateRef(st) == Entry(<< >>, st, 0)

\* write_text of a page, remembered in order with the row it renders
WritePage(path, content, ref) ==
  /\ files' = write_text(files, path, content)
  /\ written' = Append(written, [path |-> path, page |-> content, ref |-> ref])

(***************************************************************************)
(* Init                                                                    *)
(***************************************************************************)
InitFrom(catalogs) ==
  /\ SITE_MODE \in ModeArgs
  /\ CITIES \in catalogs
  /\ SITE_ORIGIN \in { NormOrigin(raw) : raw \in EnvSiteOrigins }
  \* only subdomain mode reads SUBDOMAIN_BASE (abs_city_origin_subdomain)
  /\ SUBDOMAIN_BASE \in { NormSubdomainBase(raw) :
                             raw \in IF SITE_MODE = "subdomain" THEN EnvSubdomainBases
                                                               ELSE { << >> } }
  /\ imagePresent \in BOOLEAN
  \* COPY_VARIANT is not set
  /\ COPY_IDX = resolve_copy_idx(SITE_MODE, << >>)
  /\ today = 1
  /\ files \in { NoFiles, StaleSite }
  /\ files0 = files
  /\ wrangler = FALSE
  /\ urls = << >>
  /\ written = << >>
  /\ i = 0
  /\ j = 0
  /\ arg = << >>
  /\ result = << >>
  /\ pc = "import"

Init == InitFrom(Catalogs)

(***************************************************************************)
(* ENTRYPOINT                                                              *)
(***************************************************************************)
\* a build that calls main() whatever the mode is
CheckMode_NoCheck ==
  /\ pc = "import"
  /\ pc' = "reset"
  /\ UNCHANGED << config, files, wrangler, urls, written, i, j >>

\* the module-level check of SITE_MODE, before main() is called
CheckMode ==
  /\ pc = "import"
  /\ pc' = IF SITE_MODE \in VALID_MODES THEN "reset" ELSE "failed"
  /\ UNCHANGED << config, files, wrangler, urls, written, i, j >>

\* a reset that only makes sure the directory exists
reset_output_dir_KeepFiles(fs) == fs

\* reset_output_dir(out): rmtree when it exists, then mkdir
reset_output_dir(fs) == NoFiles

ResetOutputDir ==
  /\ pc = "reset"
  /\ files' = reset_output_dir(files)
  /\ pc' = "copy_image"
  /\ UNCHANGED << config, wrangler, urls, written, i, j >>

\* copy_site_image, then the dispatch of main() on SITE_MODE
CopySiteImage ==
  /\ pc = "copy_image"
  /\ IF ~imagePresent
       THEN /\ pc' = "failed"
            /\ UNCHANGED files
       ELSE /\ files' = write_text(files, PathJoin(<< image_filename >>), [kind |-> "image"])
            /\ pc' = IF SITE_MODE = "regular_city_only" THEN "rco_home" ELSE "common_cost"
  /\ UNCHANGED << config, wrangler, urls, written, i, j >>


(***************************************************************************)
(* BUILD MODES                                                             *)
(***************************************************************************)
\* build_common forgetting the home page, which it does not write itself
CommonUrls_NoHome == << U_cost, U_howto, U_contact >>

\* build_common listing only the pages regular_city_only keeps
CommonUrls_NoCostHowTo == << U_home, U_contact >>

\* build_common listing the pages in the order it and its caller write them
CommonUrls_WriteOrder == << U_cost, U_howto, U_contact, U_home >>

\* urls = ["/", "/cost/", "/how-to/", "/contact/"]
CommonUrls == << U_home, U_cost, U_howto, U_contact >>

\* urls: list[str] = ["/", "/contact/"]
CityOnlyUrls == << U_home, U_contact >>

\* the slug with state and city swapped, as the state topology nests them
slug_of_StateFirst(city, st) == slugify(st) \o Hyphen \o slugify(city)

\* slug = f"{slugify(city)}-{slugify(st)}"
slug_of(city, st) == slugify(city) \o Hyphen \o slugify(st)

\* f"/{slug}/"
loc_url(slug) == Slash \o slug \o Slash

\* the cost page listed under the path of the location page
cost_loc_url_NoPrefix(slug) == Slash \o slug \o Slash

\* f"/cost/{slug}/"
cost_loc_url(slug) == Slash \o S_cost \o Slash \o slug \o Slash

\* f"/{slugify(st)}/"
state_url(st) == Slash \o slugify(st) \o Slash

\* f"/{slugify(st)}/{slugify(city)}/"
state_city_url(st, city) == Slash \o slugify(st) \o Slash \o slugify(city) \o Slash

\* where a build function goes after its home page: into the loop, or past
\* it when the catalog is empty
AfterHome(loopPc, nextPc) == IF CITIES = << >> THEN nextPc ELSE loopPc

\* build_common asking for the city index of the Cost page in every mode
BuildCommonCost_AlwaysIndex ==
  /\ pc = "common_cost"
  /\ WritePage(PageFile(<< S_cost >>), cost_page_html(SITE_MODE, TRUE), NoRef)
  /\ pc' = "common_howto"
  /\ UNCHANGED << config, wrangler, urls, i, j >>

\* build_common: the three shared pages, then the list it returns
BuildCommonCost ==
  /\ pc = "common_cost"
  /\ WritePage(PageFile(<< S_cost >>), cost_page_html(SITE_MODE, SITE_MODE = "cost"), NoRef)
  /\ pc' = "common_howto"
  /\ UNCHANGED << config, wrangler, urls, i, j >>

BuildCommonHowto ==
  /\ pc = "common_howto"
  /\ WritePage(PageFile(<< S_howto >>), howto_page_html(SITE_MODE), NoRef)
  /\ pc' = "common_contact"
  /\ UNCHANGED << config, wrangler, urls, i, j >>

\* build_common returning its list without having written the contact page
BuildCommonContact_ListOnly ==
  /\ pc = "common_contact"
  /\ urls' = CommonUrls
  /\ pc' = "home"
  /\ UNCHANGED << config, files, written, wrangler, i, j >>

BuildCommonContact ==
  /\ pc = "common_contact"
  /\ WritePage(PageFile(<< S_contact >>), contact_page_html(SITE_MODE), NoRef)
  /\ urls' = CommonUrls
  /\ pc' = "home"
  /\ UNCHANGED << config, wrangler, i, j >>

\* build_regular
BuildRegularHome ==
  /\ pc = "home" /\ SITE_MODE = "regular"
  /\ WritePage(PageFile(<< >>), homepage_html("regular"), NoRef)
  /\ i' = 1
  /\ pc' = AfterHome("regular_cities", "robots")
  /\ UNCHANGED << config, wrangler, urls, j >>

BuildRegularCity ==
  /\ pc = "regular_cities"
  /\ LET t == CITIES[i]
         slug == slug_of(t.city, t.st)
     IN  /\ WritePage(PageFile(<< slug >>),
                      city_page_html("regular", t.city, t.st, t.col, loc_url(slug)), t)
         /\ urls' = Append(urls, loc_url(slug))
  /\ i' = i + 1
  /\ pc' = IF i = Len(CITIES) THEN "robots" ELSE "regular_cities"
  /\ UNCHANGED << config, wrangler, j >>

\* build_cost
BuildCostHome ==
  /\ pc = "home" /\ SITE_MODE = "cost"
  /\ WritePage(PageFile(<< >>), homepage_html("cost"), NoRef)
  /\ i' = 1
  /\ pc' = AfterHome("cost_cities", "robots")
  /\ UNCHANGED << config, wrangler, urls, j >>

BuildCostCity ==
  /\ pc = "cost_cities"
  /\ LET t == CITIES[i]
         slug == slug_of(t.city, t.st)
     IN  /\ WritePage(PageFile(<< slug >>),
                      city_page_html("cost", t.city, t.st, t.col, loc_url(slug)), t)
         /\ urls' = Append(urls, loc_url(slug))
  /\ i' = IF i = Len(CITIES) THEN 1 ELSE i + 1
  /\ pc' = IF i = Len(CITIES) THEN "cost_cost_cities" ELSE "cost_cities"
  /\ UNCHANGED << config, wrangler, j >>

BuildCostCostCity ==
  /\ pc = "cost_cost_cities"
  /\ LET t == CITIES[i]
         slug == slug_of(t.city, t.st)
     IN  /\ WritePage(PageFile(<< S_cost, slug >>),
                      cost_city_page_html("cost", t.city, t.st, t.col), t)
         /\ urls' = Append(urls, cost_loc_url(slug))
  /\ i' = i + 1
  /\ pc' = IF i = Len(CITIES) THEN "robots" ELSE "cost_cost_cities"
  /\ UNCHANGED << config, wrangler, j >>

\* build_state
BuildStateHome ==
  /\ pc = "home" /\ SITE_MODE = "state"
  /\ WritePage(PageFile(<< >>), state_homepage_html("state"), NoRef)
  /\ i' = 1
  /\ pc' = AfterHome("state_page", "robots")
  /\ UNCHANGED << config, wrangler, urls, j >>

BuildStatePage ==
  /\ pc = "state_page"
  /\ LET g == cities_by_state(CITIES)[i]
     IN  /\ WritePage(PageFile(<< slugify(g.st) >>),
                      state_page_html("state", g.st, g.cities), StateRef(g.st))
         /\ urls' = Append(urls, state_url(g.st))
  /\ j' = 1
  /\ pc' = "state_cities"
  /\ UNCHANGED << config, wrangler, i >>

BuildStateCity ==
  /\ pc = "state_cities"
  /\ LET by_state == cities_by_state(CITIES)
         g == by_state[i]
         t == g.cities[j]
         lastCity == j = Len(g.cities)
     IN  /\ WritePage(PageFile(<< slugify(g.st), slugify(t.city) >>),
                      city_page_html("state", t.city, g.st, t.col,
                                     state_city_url(g.st, t.city)), t)
         /\ urls' = Append(urls, state_city_url(g.st, t.city))
         /\ j' = IF lastCity THEN 0 ELSE j + 1
         /\ i' = IF lastCity THEN i + 1 ELSE i
         /\ pc' = IF ~lastCity THEN "state_cities"
                  ELSE IF i = Len(by_state) THEN "robots"
                  ELSE "state_page"
  /\ UNCHANGED << config, wrangler >>

\* build_subdomain
BuildSubdomainHome ==
  /\ pc = "home" /\ SITE_MODE = "subdomain"
  /\ WritePage(PageFile(<< >>), homepage_html("subdomain"), NoRef)
  /\ i' = 1
  /\ pc' = AfterHome("subdomain_cities", "robots")
  /\ UNCHANGED << config, wrangler, urls, j >>

BuildSubdomainCity ==
  /\ pc = "subdomain_cities"
  /\ LET t == CITIES[i]
         slug == slug_of(t.city, t.st)
         city_origin == abs_city_origin_subdomain(t.city, t.st)
     IN  /\ WritePage(PageFile(<< slug >>),
                      city_page_html("subdomain", t.city, t.st, t.col, city_origin), t)
         /\ urls' = Append(urls, city_origin)
  /\ i' = i + 1
  /\ pc' = IF i = Len(CITIES) THEN "robots" ELSE "subdomain_cities"
  /\ UNCHANGED << config, wrangler, j >>

\* build_regular_city_only
BuildCityOnlyHome ==
  /\ pc = "rco_home"
  /\ urls' = CityOnlyUrls
  /\ WritePage(PageFile(<< >>), city_only_homepage("regular_city_only"), NoRef)
  /\ pc' = "rco_contact"
  /\ UNCHANGED << config, wrangler, i, j >>

BuildCityOnlyContact ==
  /\ pc = "rco_contact"
  /\ WritePage(PageFile(<< S_contact >>), contact_page_html("regular_city_only"), NoRef)
  /\ i' = 1
  /\ pc' = AfterHome("rco_cities", "robots")
  /\ UNCHANGED << config, wrangler, urls, j >>

BuildCityOnlyCity ==
  /\ pc = "rco_cities"
  /\ LET t == CITIES[i]
         slug == slug_of(t.city, t.st)
     IN  /\ WritePage(PageFile(<< slug >>),
                      city_only_city_page("regular_city_only", t.city, t.st, t.col,
                                          loc_url(slug)), t)
         /\ urls' = Append(urls, loc_url(slug))
  /\ i' = i + 1
  /\ pc' = IF i = Len(CITIES) THEN "robots" ELSE "rco_cities"
  /\ UNCHANGED << config, wrangler, j >>

\* the last three statements of every build function
WriteRobots ==
  /\ pc = "robots"
  /\ files' = write_text(files, PathJoin(<< RobotsTxt >>), robots_txt)
  /\ pc' = "sitemap"
  /\ UNCHANGED << config, wrangler, urls, written, i, j >>

\* sitemap.xml listing the collected urls as they are
WriteSitemap_RawUrls ==
  /\ pc = "sitemap"
  /\ files' = write_text(files, PathJoin(<< SitemapXml >>), sitemap_xml(urls))
  /\ pc' = "wrangler"
  /\ UNCHANGED << config, wrangler, urls, written, i, j >>

WriteSitemap ==
  /\ pc = "sitemap"
  /\ files' = write_text(files, PathJoin(<< SitemapXml >>),
                         sitemap_xml([k \in 1..Len(urls) |-> canonical_for(SITE_MODE, urls[k])]))
  /\ pc' = "wrangler"
  /\ UNCHANGED << config, wrangler, urls, written, i, j >>

WriteWrangler ==
  /\ pc = "wrangler"
  /\ wrangler' = wrangler_content
  /\ pc' = "done"
  /\ UNCHANGED << config, files, urls, written, i, j >>

Next ==
  \/ CheckMode
  \/ ResetOutputDir
  \/ CopySiteImage
  \/ BuildCommonCost
  \/ BuildCommonHowto
  \/ BuildCommonContact
  \/ BuildRegularHome
  \/ BuildRegularCity
  \/ BuildCostHome
  \/ BuildCostCity
  \/ BuildCostCostCity
  \/ BuildStateHome
  \/ BuildStatePage
  \/ BuildStateCity
  \/ BuildSubdomainHome
  \/ BuildSubdomainCity
  \/ BuildCityOnlyHome
  \/ BuildCityOnlyContact
  \/ BuildCityOnlyCity
  \/ WriteRobots
  \/ WriteSitemap
  \/ WriteWrangler

Spec == Init /\ [][Next]_vars

(***************************************************************************)
(* Helpers called on their own: the environment and the argument are drawn *)
(* in the initial state, the one action is the call.                       *)
(***************************************************************************)
\* no build is running
Idle ==
  /\ CITIES = << >> /\ imagePresent = TRUE /\ COPY_IDX = 0 /\ today = 1 /\ files = NoFiles /\ files0 = NoFiles
  /\ wrangler = FALSE /\ urls = << >> /\ written = << >> /\ i = 0 /\ j = 0
  /\ result = << >> /\ pc = "call"

Return ==
  /\ pc' = "return"
  /\ UNCHANGED << SITE_MODE, CITIES, SITE_ORIGIN, SUBDOMAIN_BASE, imagePresent, COPY_IDX, today,
                  files, files0, wrangler, urls, written, i, j, arg >>

\* paths and URLs handed to canonical_for
CanonicalArgs ==
  { << >>, Slash, U_cost, Slash \o slugify(City_Reno) \o Hyphen \o slugify(St_NV) \o Slash,
    HttpsScheme \o Host_example \o Slash, HttpScheme \o Host_example \o U_cost,
    upper(HttpsScheme) \o Host_example \o Slash, << "h", "t", "t", "p", "s", ":", "/" >>,
    Slash \o Slash \o Host_example, Host_example }

InitCanonical ==
  /\ Idle
  /\ SITE_MODE \in ModeArgs
  /\ SITE_ORIGIN \in { NormOrigin(raw) : raw \in EnvSiteOrigins }
  /\ SUBDOMAIN_BASE \in { NormSubdomainBase(raw) : raw \in EnvSubdomainBases }
  /\ arg \in CanonicalArgs

CallCanonicalFor ==
  /\ pc = "call"
  /\ result' = canonical_for(SITE_MODE, arg)
  /\ Return

SpecCanonical == InitCanonical /\ [][CallCanonicalFor]_vars

\* mode arguments outside VALID_MODES
UnknownModes == {"bogus", "", "Regular", "costs"}

\* values of COPY_VARIANT in the environment
EnvCopyVariants ==
  { << >>, << "3" >>, << " ", "2", " " >>, << "0" >>, << "9" >>, << "1", "2" >>,
    << "a", "b", "c" >>, << "-", "1" >> }

\* the module level evaluates COPY_IDX before it checks SITE_MODE, and the
\* link helpers take any mode
InitResolve ==
  /\ Idle
  /\ SITE_MODE \in VALID_MODES \cup UnknownModes
  /\ SITE_ORIGIN \in { NormOrigin(raw) : raw \in EnvSiteOrigins }
  /\ SUBDOMAIN_BASE \in { NormSubdomainBase(raw) : raw \in EnvSubdomainBases }
  /\ arg \in [env : EnvCopyVariants, row : { load_row(e) : e \in CsvRows }]

CallResolve ==
  /\ pc = "call"
  /\ result' = [COPY_IDX |-> resolve_copy_idx(SITE_MODE, arg.env),
                 href |-> href_city(SITE_MODE, arg.row.city, arg.row.st),
                 nav |-> nav_html(SITE_MODE, TRUE, TRUE, TRUE),
                 footer |-> footer_block(SITE_MODE, TRUE, TRUE, TRUE)]
  /\ Return

SpecResolve == InitResolve /\ [][CallResolve]_vars

MinPad == 64

MaxPad == 69

Pad(n) == [k \in 1..n |-> "a"]

\* what follows the padding: nothing, letters, blanks where the cut falls,
\* characters that esc rewrites
TitleTails ==
  { << >>, << "b" >>, << " ", "b" >>, << " ", " ", "b", "c" >>, << "b", " ", " ", " ", "c" >>,
    << " ", "&", " ", "b" >>, << "<", "b", ">", "c", "d", "e" >>, << " ", " ", " ", " ", " ", " ", " " >> }

\* headings of 64 to 76 characters, and the longest heading of the program
TitleArgs ==
  { Pad(n) \o tail : n \in MinPad..MaxPad, tail \in TitleTails }
    \cup { h1_title, InCityState(h1_short, Pad(MaxPad - MinPad) \o City_Reno, St_NV) }

InitTitle ==
  /\ Idle
  /\ SITE_MODE \in VALID_MODES
  /\ SITE_ORIGIN \in { NormOrigin(raw) : raw \in EnvSiteOrigins }
  /\ SUBDOMAIN_BASE = << >>
  /\ arg \in TitleArgs

\* make_page called with the heading arg
CallMakePage ==
  /\ pc = "call"
  /\ result' = make_page(SITE_MODE, "city", arg, U_home, << >>, DefaultFlags)
  /\ Return

SpecTitle == InitTitle /\ [][CallMakePage]_vars

\* the statements that write a file
WritePcs ==
  { "common_cost", "common_howto", "common_contact", "home", "regular_cities",
    "cost_cities", "cost_cost_cities", "state_page", "state_cities",
    "subdomain_cities", "rco_home", "rco_contact", "rco_cities", "robots",
    "sitemap", "wrangler" }

\* path.write_text raises OSError (disk full, permission): nothing catches
\* it, the interpreter exits and the output directory stays as it is
WriteFails ==
  /\ pc \in WritePcs
  /\ pc' = "failed"
  /\ UNCHANGED << config, files, wrangler, urls, written, i, j >>

NextFail == Next \/ WriteFails

\* the build in an environment where a write may fail
SpecFail == Init /\ [][NextFail]_vars

TypeOK ==
  /\ pc \in { "import", "reset", "copy_image", "common_cost", "common_howto",
              "common_contact", "home", "regular_cities", "cost_cities",
              "cost_cost_cities", "state_page", "state_cities", "subdomain_cities",
              "rco_home", "rco_contact", "rco_cities", "robots", "sitemap",
              "wrangler", "done", "failed", "call", "return" }
  /\ Len(urls) <= 4 + 2 * MaxCatalog


(***************************************************************************)
(* Properties                                                              *)
(***************************************************************************)
Done == pc = "done"

SitemapFile == PathJoin(<< SitemapXml >>)

HasSitemap == SitemapFile \in DOMAIN files /\ files[SitemapFile].kind = "sitemap"

\* the <loc> entries of sitemap.xml, in order
Sitemap == files[SitemapFile].locs

\* the page files of the output directory
PageFiles == { p \in DOMAIN files : p[Len(p)] = IndexHtml }

NoDuplicates(seq) == \A a, b \in 1..Len(seq) : a # b => seq[a] # seq[b]

\* origin + path when an origin is configured, else the path
WithOrigin(path) == IF SITE_ORIGIN = << >> THEN path ELSE SITE_ORIGIN \o path

\* C1: in every mode and for every catalog, the canonical URLs a finished
\* build has listed in sitemap.xml are pairwise different.
C1_SitemapHasNoDuplicates == Done => NoDuplicates(Sitemap)

\* C2: after a successful build the number of page files in the output
\* directory equals the number of routes, and the page of every location
\* route is the file the route was written to: no two routes share a file.
C2_OnePageFilePerRoute ==
  Done => /\ Cardinality(PageFiles) = Len(urls)
          /\ \A a, b \in 1..Len(written) : a # b => written[a].path # written[b].path

\* C3: the number of <url> entries of sitemap.xml equals the number of page
\* writes the build has performed.
C3_SitemapCardinality == Done => Len(Sitemap) = Len(written)

C3_Witness ==
  /\ Done /\ SITE_MODE = "cost" /\ Len(CITIES) = 2
  /\ Len(Sitemap) = 8 /\ Len(written) = 8


\* number of fixed routes that precede the per-location routes
FixedRoutes == IF SITE_MODE = "regular_city_only" THEN 2 ELSE 4

NumCities == Len(CITIES)

\* C4 as stated: the k-th entry of sitemap.xml is the canonical URL of the
\* page that was generated k-th.
C4_SitemapInGenerationOrder ==
  Done => /\ Len(Sitemap) = Len(written)
          /\ \A k \in 1..Len(Sitemap) : Sitemap[k] = written[k].page.canonical

\* C4 (amended): sitemap.xml lists home first, then the shared pages, then
\* the per-location pages in catalog order (in cost mode followed by the
\* per-location cost pages in catalog order); in state mode every state page
\* comes once, directly followed by the location pages of that state.  This
\* is the order in which the pages are written, except that in regular,
\* cost, state and subdomain mode the home page is written fourth, after the
\* three shared pages.
C4_SitemapOrder ==
  Done =>
    /\ Len(Sitemap) = Len(written)
    /\ Sitemap[1] = WithOrigin(U_home)
    /\ \A k \in (FixedRoutes + 1)..Len(Sitemap) : Sitemap[k] = written[k].page.canonical
    /\ IF SITE_MODE = "regular_city_only"
         THEN /\ Sitemap[2] = WithOrigin(U_contact)
              /\ \A k \in 1..2 : Sitemap[k] = written[k].page.canonical
         ELSE /\ Sitemap[2] = WithOrigin(U_cost)
              /\ Sitemap[3] = WithOrigin(U_howto)
              /\ Sitemap[4] = WithOrigin(U_contact)
              /\ Sitemap[1] = written[4].page.canonical
              /\ \A k \in 1..3 : Sitemap[k + 1] = written[k].page.canonical
    /\ SITE_MODE \in {"regular", "subdomain", "regular_city_only"} =>
         /\ Len(Sitemap) = FixedRoutes + NumCities
         /\ \A k \in 1..NumCities :
              /\ written[FixedRoutes + k].ref = CITIES[k]
              /\ written[FixedRoutes + k].page.kind = "city"
    /\ SITE_MODE = "cost" =>
         /\ Len(Sitemap) = 4 + 2 * NumCities
         /\ \A k \in 1..NumCities :
              /\ written[4 + k].ref = CITIES[k]
              /\ written[4 + k].page.kind = "city"
              /\ written[4 + NumCities + k].ref = CITIES[k]
              /\ written[4 + NumCities + k].page.kind = "cost_city"
    /\ SITE_MODE = "state" =>
         /\ Cardinality({ k \in 5..Len(written) : written[k].page.kind = "city" }) = NumCities
         /\ \A k \in 5..Len(written) :
              \/ /\ written[k].page.kind = "state"
                 /\ \A m \in 5..(k - 1) : written[m].ref.st # written[k].ref.st
                 /\ k < Len(written)
                 /\ written[k + 1].page.kind = "city"
              \/ /\ written[k].page.kind = "city"
                 /\ k > 5
                 /\ written[k - 1].ref.st = written[k].ref.st

C4_Witness ==
  /\ Done /\ SITE_MODE = "state" /\ SITE_ORIGIN = << >>
  /\ Len(CITIES) = 3
  /\ CITIES[1].st = St_TX /\ CITIES[2].st = St_NV /\ CITIES[3].st = St_TX
  /\ Sitemap[1] = << "/" >>
  /\ Sitemap[5] = << "/", "t", "x", "/" >>
  /\ Sitemap[8] = << "/", "n", "v", "/" >>
  /\ written[4].page.kind = "state_home"

\* C5: in regular, cost and regular_city_only mode without a configured
\* origin, the page of every catalog row publishes the canonical path
\* /{slugify(city)}-{slugify(state)}/, sitemap.xml lists that same string
\* for it, and the page is written into the folder of that name.
C5_RegularLocationPath ==
  (Done /\ SITE_MODE \in {"regular", "cost", "regular_city_only"} /\ SITE_ORIGIN = << >>) =>
    \A k \in 1..NumCities :
      LET folder == slugify(CITIES[k].city) \o << "-" >> \o slugify(CITIES[k].st)
          path == << "/" >> \o folder \o << "/" >>
          w == written[FixedRoutes + k]
      IN  /\ w.ref = CITIES[k]
          /\ w.page.canonical = path
          /\ Sitemap[FixedRoutes + k] = path
          /\ w.path = << folder, IndexHtml >>
          /\ w.path \in DOMAIN files
          /\ files[w.path].canonical = path

C5_Witness ==
  /\ Done /\ SITE_MODE = "regular_city_only" /\ SITE_ORIGIN = << >>
  /\ Len(CITIES) = 2
  /\ CITIES[2].city = City_Reno
  /\ Sitemap[4] = << "/", "r", "e", "n", "o", "-", "n", "v", "/" >>
  /\ << << "r", "e", "n", "o", "-", "n", "v" >>, IndexHtml >> \in DOMAIN files

\* the catalog rows of one state code
RowsOfState(st) == { k \in 1..NumCities : CITIES[k].st = st }

\* C6: in state mode every location page publishes the canonical path
\* /{slugify(state)}/{slugify(city)}/; every state code of the catalog has
\* one state page; the city list of a state page and the location pages
\* written after it are the rows of that state, both in ascending order of
\* the lower-cased city name.
C6_StateTopology ==
  (Done /\ SITE_MODE = "state") =>
    /\ \A k \in 1..Len(written) :
         written[k].page.kind = "city" =>
           written[k].page.canonical =
             WithOrigin(<< "/" >> \o slugify(written[k].ref.st) \o << "/" >>
                          \o slugify(written[k].ref.city) \o << "/" >>)
    /\ \A r \in 1..NumCities :
         Cardinality({ k \in 1..Len(written) :
                         /\ written[k].page.kind = "state"
                         /\ written[k].ref.st = CITIES[r].st }) = 1
    /\ \A k \in 1..Len(written) :
         written[k].page.kind = "state" =>
           LET st == written[k].ref.st
               n == Cardinality(RowsOfState(st))
               links == written[k].page.links
           IN  /\ Len(links) = n
               /\ k + n <= Len(written)
               /\ \A r \in RowsOfState(st) :
                    \E m \in 1..n : written[k + m].ref = CITIES[r]
               /\ \A m \in 1..n :
                    /\ written[k + m].page.kind = "city"
                    /\ written[k + m].ref.st = st
                    /\ links[m] = << "/" >> \o slugify(st) \o << "/" >>
                                    \o slugify(written[k + m].ref.city) \o << "/" >>
                    /\ m < n => StrLeq(lower(written[k + m].ref.city),
                                       lower(written[k + m + 1].ref.city))

C6_Witness ==
  /\ Done /\ SITE_MODE = "state" /\ SITE_ORIGIN = << >>
  /\ CITIES = << Entry(City_Austin, St_TX, 110), Entry(City_abilene, St_TX, 113) >>
  /\ Sitemap = << << "/" >>, U_cost, U_howto, U_contact,
                  << "/", "t", "x", "/" >>,
                  << "/", "t", "x", "/", "a", "b", "i", "l", "e", "n", "e", "/" >>,
                  << "/", "t", "x", "/", "a", "u", "s", "t", "i", "n", "/" >> >>


\* the elements of a sequence
Range(seq) == { seq[k] : k \in 1..Len(seq) }

HomeFile == << IndexHtml >>

\* C7: in subdomain mode with a subdomain base B, the page of every catalog
\* row publishes the canonical https://{slugify(city)}-{slugify(state)}.B/,
\* sitemap.xml lists that URL for it and the home page links to it with that
\* URL, whether or not a site origin is configured.
C7_SubdomainOrigin ==
  (Done /\ SITE_MODE = "subdomain" /\ SUBDOMAIN_BASE # << >>) =>
    /\ Len(files[HomeFile].links) = NumCities
    /\ \A k \in 1..NumCities :
         LET u == << "h", "t", "t", "p", "s", ":", "/", "/" >>
                    \o slugify(CITIES[k].city) \o << "-" >> \o slugify(CITIES[k].st)
                    \o << "." >> \o SUBDOMAIN_BASE \o << "/" >>
         IN  /\ written[4 + k].ref = CITIES[k]
             /\ written[4 + k].page.canonical = u
             /\ Sitemap[4 + k] = u
             /\ files[HomeFile].links[k] = u

C7_Witness ==
  /\ Done /\ SITE_MODE = "subdomain"
  /\ SITE_ORIGIN # << >>
  /\ SUBDOMAIN_BASE = << "e", "x", "a", "m", "p", "l", "e", ".", "c", "o", "m" >>
  /\ Len(CITIES) >= 1
  /\ CITIES[1] = Entry(<< "A", "u", "s", "t", "i", "n" >>, << "T", "X" >>, 110)
  /\ Sitemap[5] = << "h", "t", "t", "p", "s", ":", "/", "/", "a", "u", "s", "t", "i", "n", "-", "t", "x", ".", "e", "x", "a", "m", "p", "l", "e", ".", "c", "o", "m", "/" >>
  /\ files[HomeFile].links[1] = Sitemap[5]

\* C8 as stated: a state-mode build writes no page under /cost/ or
\* /how-to/ and lists neither URL in sitemap.xml.
C8_StateHasNoCostHowTo ==
  (Done /\ SITE_MODE = "state") =>
    /\ << S_cost, IndexHtml >> \notin DOMAIN files
    /\ << S_howto, IndexHtml >> \notin DOMAIN files
    /\ WithOrigin(U_cost) \notin Range(Sitemap)
    /\ WithOrigin(U_howto) \notin Range(Sitemap)

\* C8 (amended): a state-mode build emits the Cost index and the How-To
\* route like the regular build: build_common writes cost/index.html and
\* how-to/index.html, and sitemap.xml lists /cost/ and /how-to/ as its
\* second and third entry.
C8_StateEmitsCostHowTo ==
  (Done /\ SITE_MODE = "state") =>
    /\ << S_cost, IndexHtml >> \in DOMAIN files
    /\ << S_howto, IndexHtml >> \in DOMAIN files
    /\ written[1].path = << S_cost, IndexHtml >> /\ written[1].page.kind = "cost"
    /\ written[2].path = << S_howto, IndexHtml >> /\ written[2].page.kind = "howto"
    /\ Sitemap[2] = WithOrigin(<< "/", "c", "o", "s", "t", "/" >>)
    /\ Sitemap[3] = WithOrigin(<< "/", "h", "o", "w", "-", "t", "o", "/" >>)

C8_Witness ==
  /\ Done /\ SITE_MODE = "state" /\ SITE_ORIGIN = << >>
  /\ Len(CITIES) >= 1
  /\ files[<< S_cost, IndexHtml >>].kind = "cost"
  /\ files[<< S_howto, IndexHtml >>].kind = "howto"
  /\ Sitemap[2] = << "/", "c", "o", "s", "t", "/" >>
  /\ Sitemap[3] = << "/", "h", "o", "w", "-", "t", "o", "/" >>

\* C9: a regular_city_only build emits exactly Home, Contact and one
\* location route per catalog row; afterwards the output directory holds no
\* cost/index.html and no how-to/index.html and sitemap.xml lists neither
\* /cost/ nor /how-to/.
C9_CityOnlyRoutes ==
  (Done /\ SITE_MODE = "regular_city_only") =>
    /\ Len(Sitemap) = 2 + NumCities
    /\ << S_cost, IndexHtml >> \notin DOMAIN files
    /\ << S_howto, IndexHtml >> \notin DOMAIN files
    /\ WithOrigin(U_cost) \notin Range(Sitemap)
    /\ WithOrigin(U_howto) \notin Range(Sitemap)

\* C10: a cost-mode build emits the routes /, /cost/, /how-to/, /contact/
\* and, for every catalog row with slug = slugify(city)-slugify(state), the
\* routes /{slug}/ and /cost/{slug}/, each listed in sitemap.xml and written
\* as a page file.
C10_CostRoutes ==
  (Done /\ SITE_MODE = "cost") =>
    /\ Len(Sitemap) = 4 + 2 * NumCities
    /\ Sitemap[1] = WithOrigin(<< "/" >>)
    /\ Sitemap[2] = WithOrigin(<< "/", "c", "o", "s", "t", "/" >>)
    /\ Sitemap[3] = WithOrigin(<< "/", "h", "o", "w", "-", "t", "o", "/" >>)
    /\ Sitemap[4] = WithOrigin(<< "/", "c", "o", "n", "t", "a", "c", "t", "/" >>)
    /\ { HomeFile, << S_cost, IndexHtml >>, << S_howto, IndexHtml >>,
         << S_contact, IndexHtml >> } \subseteq DOMAIN files
    /\ \A k \in 1..NumCities :
         LET slug == slugify(CITIES[k].city) \o << "-" >> \o slugify(CITIES[k].st)
         IN  /\ Sitemap[4 + k] = WithOrigin(<< "/" >> \o slug \o << "/" >>)
             /\ Sitemap[4 + NumCities + k] =
                  WithOrigin(<< "/", "c", "o", "s", "t", "/" >> \o slug \o << "/" >>)
             /\ << slug, IndexHtml >> \in DOMAIN files
             /\ << << "c", "o", "s", "t" >>, slug, IndexHtml >> \in DOMAIN files
             /\ files[<< << "c", "o", "s", "t" >>, slug, IndexHtml >>].kind = "cost_city"

C10_Witness ==
  /\ Done /\ SITE_MODE = "cost" /\ SITE_ORIGIN = << >>
  /\ CITIES = << Entry(<< "R", "e", "n", "o" >>, << "N", "V" >>, 120) >>
  /\ Sitemap = << << "/" >>, << "/", "c", "o", "s", "t", "/" >>, << "/", "h", "o", "w", "-", "t", "o", "/" >>,
                  << "/", "c", "o", "n", "t", "a", "c", "t", "/" >>, << "/", "r", "e", "n", "o", "-", "n", "v", "/" >>,
                  << "/", "c", "o", "s", "t", "/", "r", "e", "n", "o", "-", "n", "v", "/" >> >>
  /\ << << "r", "e", "n", "o", "-", "n", "v" >>, IndexHtml >> \in DOMAIN files
  /\ << << "c", "o", "s", "t" >>, << "r", "e", "n", "o", "-", "n", "v" >>, IndexHtml >> \in DOMAIN files

\* floor(base * c / 100) in exact arithmetic
ExactFloor(base, c) == (base * c) \div 100

IsLocationPage(w) == w.page.kind \in {"city", "cost_city"}

\* C11: the cost range shown on a location page and on a location cost page
\* of a row with factor f is floor(300 * f) to floor(800 * f); for f = 1.2
\* it is 360 to 960.
C11_CostRangeIsFloor ==
  \A k \in 1..Len(written) :
    IsLocationPage(written[k]) =>
      /\ written[k].page.cost.cost_lo =
           << "$" >> \o DecStr(ExactFloor(300, written[k].ref.col))
      /\ written[k].page.cost.cost_hi =
           << "$" >> \o DecStr(ExactFloor(800, written[k].ref.col))

\* C12: with a mode outside the five enumerated values the build fails and
\* nothing is written, deleted or created: the output directory stays as it
\* was before the invocation.
C12_InvalidModeWritesNothing ==
  (SITE_MODE \notin VALID_MODES) =>
    /\ pc \in {"import", "failed"}
    /\ files = files0
    /\ written = << >>
    /\ wrangler = FALSE

C12_Witness ==
  /\ SITE_MODE = "bogus" /\ pc = "failed"
  /\ files0 = StaleSite /\ files = StaleSite

\* C13: when the site image is missing the build aborts before any write and
\* the output directory is left exactly as it was before the build started.
C13_MissingImageLeavesOutput ==
  (pc = "failed" /\ ~imagePresent) => files = files0

\* robots.txt and sitemap.xml, the last files of a build, are there
CompleteSite == HasSitemap /\ PathJoin(<< RobotsTxt >>) \in DOMAIN files

\* C14: a build that fails part-way leaves either a complete site or no page
\* at all in the output directory, never a subset of the pages.
C14_FailureIsAtomic ==
  pc = "failed" => (CompleteSite \/ PageFiles = {})

\* C15: canonical_for returns an argument starting with http:// or https://
\* unchanged; any other argument it returns with the site origin put in front
\* when one is configured and unchanged when none is; the mode plays no part.
C15_CanonicalFor ==
  pc = "return" =>
    LET absolute ==
          \/ (Len(arg) >= 7 /\ SubSeq(arg, 1, 7) = << "h", "t", "t", "p", ":", "/", "/" >>)
          \/ (Len(arg) >= 8 /\ SubSeq(arg, 1, 8) = << "h", "t", "t", "p", "s", ":", "/", "/" >>)
    IN  /\ absolute => result = arg
        /\ (~absolute /\ SITE_ORIGIN # << >>) =>
             (/\ Len(result) = Len(SITE_ORIGIN) + Len(arg)
              /\ SubSeq(result, 1, Len(SITE_ORIGIN)) = SITE_ORIGIN
              /\ SubSeq(result, Len(SITE_ORIGIN) + 1, Len(result)) = arg)
        /\ (~absolute /\ SITE_ORIGIN = << >>) => result = arg

C15_Witness ==
  /\ pc = "return" /\ SITE_MODE = "subdomain"
  /\ SITE_ORIGIN = << "h", "t", "t", "p", "s", ":", "/", "/", "s", "i", "t", "e", ".", "o", "r", "g" >>
  /\ arg = << "h", "t", "t", "p", "s", ":", "/", "/", "e", "x", "a", "m", "p", "l", "e", ".", "c", "o", "m", "/" >>
  /\ result = arg

\* the brand link, the navigation and the footer of a page
Anchors(pg) == { [to |-> "home", href |-> pg.brand] } \cup Range(pg.nav) \cup Range(pg.footer)

WrittenPages == { written[k].page : k \in 1..Len(written) }

Origin_site == << "h", "t", "t", "p", "s", ":", "/", "/", "s", "i", "t", "e", ".", "o", "r", "g" >>

\* C16 as stated: on every page the hrefs of Cost, How-To and Contact are
\* /cost/, /how-to/ and /contact/ in every mode, and the href of Home is /
\* except in subdomain mode with a configured origin, where it is origin + "/".
C16_OnlyHomeLeavesRootPaths ==
  \A pg \in WrittenPages : \A a \in Anchors(pg) :
    /\ a.to = "home" =>
         a.href = IF SITE_MODE = "subdomain" /\ SITE_ORIGIN # << >>
                    THEN SITE_ORIGIN \o << "/" >> ELSE << "/" >>
    /\ a.to = "cost" => a.href = << "/", "c", "o", "s", "t", "/" >>
    /\ a.to = "howto" => a.href = << "/", "h", "o", "w", "-", "t", "o", "/" >>
    /\ a.to = "contact" => a.href = << "/", "c", "o", "n", "t", "a", "c", "t", "/" >>

\* C16 amended: the hrefs of Home, Cost, How-To and Contact are /, /cost/,
\* /how-to/ and /contact/, except in subdomain mode with a configured origin,
\* where all four are the origin followed by that path.
C16_FixedHrefs ==
  \A pg \in WrittenPages : \A a \in Anchors(pg) :
    LET root == IF SITE_MODE = "subdomain" /\ SITE_ORIGIN # << >> THEN SITE_ORIGIN ELSE << >>
    IN  /\ a.to = "home" => a.href = root \o << "/" >>
        /\ a.to = "cost" => a.href = root \o << "/", "c", "o", "s", "t", "/" >>
        /\ a.to = "howto" => a.href = root \o << "/", "h", "o", "w", "-", "t", "o", "/" >>
        /\ a.to = "contact" => a.href = root \o << "/", "c", "o", "n", "t", "a", "c", "t", "/" >>

C16_Witness ==
  /\ Done /\ SITE_MODE = "subdomain" /\ SITE_ORIGIN = Origin_site
  /\ Len(CITIES) >= 1
  /\ \E pg \in WrittenPages :
       /\ pg.kind = "city"
       /\ [to |-> "cost", href |-> Origin_site \o << "/", "c", "o", "s", "t", "/" >>] \in Range(pg.nav)
       /\ [to |-> "contact", href |-> Origin_site \o << "/", "c", "o", "n", "t", "a", "c", "t", "/" >>]
            \in Range(pg.footer)
       /\ pg.brand = Origin_site \o << "/" >>

\* what the build makes of a recorded URL when it publishes it: a path gets
\* the configured origin in front, an absolute URL stays
Published(u) == esc(IF u # << >> /\ u[1] = "/" THEN WithOrigin(u) ELSE u)

\* the page written k-th is the location page recorded as urls[k] and
\* publishes that URL as its canonical, as sitemap.xml does
IsPageOf(k, link) ==
  /\ k <= Len(written) /\ k <= Len(urls)
  /\ written[k].page.kind = "city"
  /\ link = esc(urls[k])
  /\ written[k].page.canonical = Published(urls[k])
  /\ Sitemap[k] = Published(urls[k])

\* C17: the href that links to a location (on the home page, in state mode
\* on the page of its state) is the URL the build records for the location,
\* which the location page declares as canonical and sitemap.xml lists, both
\* after the origin upgrade.
C17_LocationHrefIsItsRoute ==
  Done =>
    \A k \in 1..Len(written) :
      LET pg == written[k].page
      IN  /\ pg.kind = "home" =>
               /\ Len(pg.links) = NumCities
               /\ \A n \in 1..NumCities :
                    /\ IsPageOf(FixedRoutes + n, pg.links[n])
                    /\ written[FixedRoutes + n].ref = CITIES[n]
          /\ pg.kind = "state" =>
               /\ Len(pg.links) = Cardinality({ n \in 1..NumCities : CITIES[n].st = written[k].ref.st })
               /\ \A q \in 1..Len(pg.links) :
                    /\ IsPageOf(k + q, pg.links[q])
                    /\ written[k + q].ref.st = written[k].ref.st

C17_Witness ==
  /\ Done /\ SITE_MODE = "state" /\ SITE_ORIGIN = Origin_site
  /\ CITIES = << Entry(City_Austin, St_TX, 110), Entry(City_Reno, St_NV, 120) >>
  /\ written[5].page.kind = "state"
  /\ written[5].page.links = << << "/", "t", "x", "/", "a", "u", "s", "t", "i", "n", "/" >> >>
  /\ urls[6] = << "/", "t", "x", "/", "a", "u", "s", "t", "i", "n", "/" >>
  /\ written[6].page.canonical = Origin_site \o << "/", "t", "x", "/", "a", "u", "s", "t", "i", "n", "/" >>
  /\ Sitemap[6] = Origin_site \o << "/", "t", "x", "/", "a", "u", "s", "t", "i", "n", "/" >>

\* the optional links a page shows in its navigation and among its footer
\* links (the call-to-action button of the footer aside)
NavShown(pg) == { a.to : a \in Range(pg.nav) } \ {"home"}

FooterShown(pg) == { a.to : a \in Range(pg.footer) } \cap {"cost", "howto"}

KindsWritten == { pg.kind : pg \in WrittenPages }

\* C18: within one build every page shows the same optional links (Cost,
\* How-To, Contact) in its navigation and in its footer, and a Cost or How-To
\* link is shown only when the build emits that page.
C18_OptionalLinksByMode ==
  Done =>
    /\ \A p, q \in WrittenPages :
         NavShown(p) = NavShown(q) /\ FooterShown(p) = FooterShown(q)
    /\ \A p \in WrittenPages :
         /\ "cost" \in NavShown(p) \cup FooterShown(p) => "cost" \in KindsWritten
         /\ "howto" \in NavShown(p) \cup FooterShown(p) => "howto" \in KindsWritten

\* C19: for a mode outside the five enumerated ones the helpers do not fail
\* and answer as for regular mode: the copy variant is that of regular (the
\* first, unless COPY_VARIANT overrides it for every mode), a location href
\* has the form /{city}-{state}/, and Cost, How-To and Contact are all shown
\* with their root paths.
C19_UnknownModeIsRegular ==
  (pc = "return" /\ SITE_MODE \notin {"regular", "cost", "state", "subdomain", "regular_city_only"}) =>
    /\ result.COPY_IDX = resolve_copy_idx("regular", arg.env)
    /\ arg.env \in { << >>, << "a", "b", "c" >>, << "-", "1" >> } => result.COPY_IDX = 0
    /\ result.href = << "/" >> \o slugify(arg.row.city) \o << "-" >> \o slugify(arg.row.st) \o << "/" >>
    /\ result.nav = << [to |-> "home", href |-> << "/" >>],
                       [to |-> "cost", href |-> << "/", "c", "o", "s", "t", "/" >>],
                       [to |-> "howto", href |-> << "/", "h", "o", "w", "-", "t", "o", "/" >>],
                       [to |-> "contact", href |-> << "/", "c", "o", "n", "t", "a", "c", "t", "/" >>] >>
    /\ { a.to : a \in Range(result.footer) } = {"home", "cost", "howto", "contact"}

C19_Witness ==
  /\ pc = "return" /\ SITE_MODE = "Regular" /\ arg.env = << >>
  /\ SITE_ORIGIN = Origin_site /\ SUBDOMAIN_BASE # << >>
  /\ arg.row.city = City_Reno
  /\ result.COPY_IDX = 0
  /\ result.href = << "/", "r", "e", "n", "o", "-", "n", "v", "/" >>
  /\ Len(result.nav) = 4

\* what a heading of more than 70 characters is cut to: its first 69
\* characters without the blanks at their end, and the ellipsis
Cut69(h) ==
  LET n == CHOOSE n \in 0..69 :
             /\ n = 0 \/ h[n] # " "
             /\ \A k \in (n + 1)..69 : h[k] = " "
  IN  SubSeq(h, 1, n) \o << "ELLIPSIS" >>

\* C20: the <title> of a page made by make_page equals its <h1>, and both
\* are the heading clamped to 70 characters: the heading itself when it has
\* at most 70 characters, else a text of at most 70 characters that ends
\* with the ellipsis; clamping the clamped heading again changes nothing.
C20_TitleIsClampedH1 ==
  pc = "return" =>
    LET clamped == IF Len(arg) <= 70 THEN arg ELSE Cut69(arg)
    IN  /\ result.title = result.h1
        /\ result.h1 = esc(clamped)
        /\ Len(clamped) <= 70
        /\ Len(arg) > 70 => clamped[Len(clamped)] = "ELLIPSIS"
        /\ clamp_title(clamped, 70) = clamped

C20_Witness ==
  /\ pc = "return"
  /\ arg = Pad(67) \o << " ", " ", "b", "c" >>
  /\ result.title = Pad(67) \o << "ELLIPSIS" >>
  /\ result.h1 = result.title

(***************************************************************************)
(* Catalog text with markup characters.  The same build, run on catalogs   *)
(* whose city and state texts hold the five characters esc rewrites.       *)
(***************************************************************************)
MaxMarkup == 2

MarkupRows ==
  { Entry(<< "A", "&", "B" >>, St_TX, 100),
    Entry(<< "O", "'", "N" >>, St_NV, 120),
    Entry(<< "<", "i", ">" >>, << "n", "\"", "v" >>, 100) }

MarkupCatalogs ==
  UNION { { c \in [1..n -> { load_row(e) : e \in MarkupRows }] :
              \A a, b \in 1..n : a # b => c[a] # c[b] } : n \in 0..MaxMarkup }

SpecMarkup == InitFrom(MarkupCatalogs) /\ [][Next]_vars

\* what html.escape leaves of the five characters it rewrites
Entities == { EscChar(c) : c \in { "&", "<", ">", "\"", "'" } }

\* s holds none of the five characters except as part of an entity
IsEscaped(s) ==
  \A k \in 1..Len(s) :
    /\ s[k] \notin { "<", ">", "\"", "'" }
    /\ s[k] = "&" =>
         \E e \in Entities :
           /\ k + Len(e) - 1 <= Len(s)
           /\ SubSeq(s, k, k + Len(e) - 1) = e

\* C21: every place where a written page shows catalog text (title, h1, the
\* heading and the paragraph of the local cost section) shows it escaped
C21_CatalogTextIsEscaped ==
  \A k \in 1..Len(written) :
    LET pg == written[k].page
    IN  /\ IsEscaped(pg.title)
        /\ IsEscaped(pg.h1)
        /\ "cost" \in DOMAIN pg =>
             /\ IsEscaped(pg.cost.h2)
             /\ IsEscaped(pg.cost.place)

(***************************************************************************)
(* slugify called on its own, on every text of up to MaxSlugLen characters *)
(* of SlugAlphabet and on the two spellings of one city.                   *)
(***************************************************************************)
MaxSlugLen == 3

SlugAlphabet == { "a", "S", "1", "&", "-", " ", "." }

StDotPaul == << "S", "t", ".", " ", "P", "a", "u", "l" >>

ST_PAUL == << "S", "T", " ", "P", "A", "U", "L" >>

SlugArgs ==
  UNION { [1..n -> SlugAlphabet] : n \in 0..MaxSlugLen } \cup { StDotPaul, ST_PAUL }

InitSlug ==
  /\ Idle
  /\ SITE_MODE = "regular"
  /\ SITE_ORIGIN = << >>
  /\ SUBDOMAIN_BASE = << >>
  /\ arg \in SlugArgs

CallSlugify ==
  /\ pc = "call"
  /\ result' = slugify(arg)
  /\ Return

SpecSlug == InitSlug /\ [][CallSlugify]_vars

\* the positions where a hyphen-separated token "and" starts
AndTokens(s) ==
  { k \in 1..Len(s) - 2 :
      /\ SubSeq(s, k, k + 2) = << "a", "n", "d" >>
      /\ k = 1 \/ s[k - 1] = "-"
      /\ k + 2 = Len(s) \/ s[k + 3] = "-" }

\* the same text in capitals, each full stop and hyphen turned into a blank
Respell(s) == [k \in 1..Len(s) |-> IF s[k] \in { ".", "-" } THEN " " ELSE UpperChar(s[k])]

\* C22: a slug is over [a-z0-9-] with no hyphen at either end and no two
\* hyphens in a row, has a token "and" for every & of the text, is empty for
\* the empty text, and is the same for texts that differ in letter case and
\* separator punctuation only ("St. Paul" and "ST PAUL" both give "st-paul")
C22_Slugify ==
  pc = "return" =>
    /\ \A k \in 1..Len(result) : IsLowerOrDigit(result[k]) \/ result[k] = "-"
    /\ result # << >> => result[1] # "-" /\ result[Len(result)] # "-"
    /\ \A k \in 1..Len(result) - 1 : ~(result[k] = "-" /\ result[k + 1] = "-")
    /\ Cardinality(AndTokens(result)) >= Cardinality({ k \in 1..Len(arg) : arg[k] = "&" })
    /\ arg = << >> => result = << >>
    /\ result = slugify(Respell(arg))
    /\ arg \in { StDotPaul, ST_PAUL } => result = << "s", "t", "-", "p", "a", "u", "l" >>

C22_Witness ==
  /\ pc = "return"
  /\ arg = StDotPaul
  /\ result = << "s", "t", "-", "p", "a", "u", "l" >>

(***************************************************************************)
(* The script run twice on the same directory.  The second process reads   *)
(* its own mode argument, COPY_VARIANT and cities.csv, a day later; origin, *)
(* subdomain base and image stay.  arg keeps what the first run left.      *)
(***************************************************************************)
MaxTwice == 1

TwiceCatalogs ==
  UNION { { c \in [1..n -> { load_row(Entry(City_Reno, St_NV, 120)),
                             load_row(Entry(City_Austin, St_TX, 110)) }] :
              \A a, b \in 1..n : a # b => c[a] # c[b] } : n \in 0..MaxTwice }

\* COPY_VARIANT not set, or set to 3
EnvCopyTwice == { << >>, << "3" >> }

InitTwice ==
  /\ SITE_MODE \in ModeArgs
  /\ CITIES \in TwiceCatalogs
  /\ SITE_ORIGIN \in { NormOrigin(raw) : raw \in EnvSiteOrigins }
  /\ SUBDOMAIN_BASE \in { NormSubdomainBase(raw) :
                             raw \in IF SITE_MODE = "subdomain" THEN EnvSubdomainBases
                                                               ELSE { << >> } }
  /\ imagePresent \in BOOLEAN
  /\ COPY_IDX \in { resolve_copy_idx(SITE_MODE, env) : env \in EnvCopyTwice }
  /\ today = 1
  /\ files = NoFiles
  /\ files0 = files
  /\ wrangler = FALSE
  /\ urls = << >>
  /\ written = << >>
  /\ i = 0
  /\ j = 0
  /\ arg = << >>
  /\ result = << >>
  /\ pc = "import"

\* the script is started again after a build that succeeded
Rerun ==
  /\ pc = "done"
  /\ arg = << >>
  /\ arg' = [files |-> files, wrangler |-> wrangler, SITE_MODE |-> SITE_MODE,
             COPY_IDX |-> COPY_IDX, CITIES |-> CITIES]
  /\ SITE_MODE' \in VALID_MODES
  /\ CITIES' \in TwiceCatalogs
  /\ COPY_IDX' \in { resolve_copy_idx(SITE_MODE', env) : env \in EnvCopyTwice }
  /\ today' = today + 1
  /\ files0' = files
  /\ urls' = << >>
  /\ written' = << >>
  /\ i' = 0
  /\ j' = 0
  /\ pc' = "import"
  /\ UNCHANGED << SITE_ORIGIN, SUBDOMAIN_BASE, imagePresent, files, wrangler, result >>

NextTwice == Next \/ Rerun

SpecTwice == InitTwice /\ [][NextTwice]_vars

\* the second build has finished
SecondDone == pc = "done" /\ arg # << >>

\* C23 as stated: a second build with the mode, catalog, origin and
\* subdomain base of the first leaves the same output directory
C23_SameConfigSameOutput ==
  SecondDone /\ arg.SITE_MODE = SITE_MODE /\ arg.CITIES = CITIES => files = arg.files

\* C23: a second build with the mode, catalog, origin, subdomain base and
\* copy variant of the first leaves the same output directory, file by file;
\* wrangler.jsonc is not part of that directory
C23_SameInputsSameOutput ==
  (SecondDone /\ arg.SITE_MODE = SITE_MODE /\ arg.CITIES = CITIES /\ arg.COPY_IDX = COPY_IDX) =>
    files = arg.files

\* two equal builds on different days: equal directories, different wrangler.jsonc
C23_Witness ==
  /\ SecondDone
  /\ arg.SITE_MODE = SITE_MODE
  /\ arg.COPY_IDX = COPY_IDX
  /\ arg.CITIES = CITIES
  /\ SITE_MODE = "cost"
  /\ Len(CITIES) = 1
  /\ files = arg.files
  /\ wrangler # arg.wrangler

CostIndexFile == PageFile(<< S_cost >>)

\* C24: the Cost index of a finished cost-mode build links, in catalog order,
\* to /cost/{slugify(city)}-{slugify(state)}/ for every catalog row, and the
\* page file of each target is in the output directory; the Cost index of a
\* finished build in any other mode has no such links
C24_CostIndexLinks ==
  (Done /\ CostIndexFile \in DOMAIN files) =>
    LET links == files[CostIndexFile].links
    IN  IF SITE_MODE = "cost"
          THEN /\ Len(links) = Len(CITIES)
               /\ \A k \in 1..Len(CITIES) :
                    LET slug == slugify(CITIES[k].city) \o Hyphen \o slugify(CITIES[k].st)
                    IN  /\ links[k] = Slash \o S_cost \o Slash \o slug \o Slash
                        /\ PageFile(<< S_cost, slug >>) \in DOMAIN files
                        /\ files[PageFile(<< S_cost, slug >>)].kind = "cost_city"
          ELSE links = << >>

C24_Witness ==
  /\ Done
  /\ SITE_MODE = "cost"
  /\ Len(CITIES) = 2
  /\ CITIES[1].city = City_Reno
  /\ files[CostIndexFile].links[2] =
       << "/", "c", "o", "s", "t", "/", "a", "b", "i", "l", "e", "n", "e", "-", "t", "x", "/" >>

RECURSIVE SplitPath(_)
\* the segments of a path: "/cost/reno-nv/" is cost, reno-nv
SplitPath(s) ==
  IF s = << >> THEN << >>
  ELSE IF s[1] = "/" THEN SplitPath(Tail(s))
  ELSE LET ends == { k \in 1..Len(s) : s[k] = "/" } \cup { Len(s) + 1 }
           n == CHOOSE k \in ends : \A m \in ends : k <= m
       IN  << SubSeq(s, 1, n - 1) >> \o SplitPath(SubSeq(s, n, Len(s)))

\* every href of a page: brand, navigation, footer, call to action, lists
Hrefs(pg) == { a.href : a \in Anchors(pg) } \cup Range(pg.links)

\* C25: every root-relative link of every page a finished build wrote leads
\* to a page file of the output directory
C25_LinkClosure ==
  Done =>
    \A k \in 1..Len(written) :
      \A href \in Hrefs(written[k].page) :
        (href # << >> /\ href[1] = "/") => PageFile(SplitPath(href)) \in PageFiles

RobotsFile == PathJoin(<< RobotsTxt >>)

\* the page file a URL of the site is served from: the path below the site
\* origin, or the directory named by the first label of a location subdomain
UrlFile(u) ==
  IF u # << >> /\ u[1] = "/" THEN PageFile(SplitPath(u))
  ELSE IF SITE_ORIGIN # << >> /\ StartsWith(u, SITE_ORIGIN \o Slash)
    THEN PageFile(SplitPath(SubSeq(u, Len(SITE_ORIGIN) + 1, Len(u))))
  ELSE LET host == SubSeq(u, Len(HttpsScheme) + 1, Len(u))
           dot == CHOOSE k \in 1..Len(host) :
                    host[k] = "." /\ \A m \in 1..k - 1 : host[m] # "."
       IN  PageFile(<< SubSeq(host, 1, dot - 1) >>)

\* C26: whenever this build's robots.txt or sitemap.xml is in the output
\* directory, also after a failed write, no page write is still to come,
\* and the page file of every URL sitemap.xml lists is in the output
\* directory, written by this build
C26_SitemapAfterPages ==
  /\ (RobotsFile \in DOMAIN files /\ files[RobotsFile].kind = "robots") =>
       pc \in { "sitemap", "wrangler", "done", "failed" }
  /\ HasSitemap =>
       /\ pc \in { "wrangler", "done", "failed" }
       /\ \A k \in 1..Len(Sitemap) :
            /\ UrlFile(Sitemap[k]) \in PageFiles
            /\ files[UrlFile(Sitemap[k])].kind # "stale"

\* the write of wrangler.jsonc failed: sitemap.xml and both location pages are there
C26_Witness ==
  /\ pc = "failed"
  /\ HasSitemap
  /\ SITE_MODE = "state"
  /\ Len(CITIES) = 2
  /\ Len(Sitemap) = 8

ImageFile == PathJoin(<< image_filename >>)

\* C27: when a build has finished, whatever an earlier build left, the output
\* directory holds the site image, robots.txt, sitemap.xml and the page files
\* this build wrote, each with the content this build gave it, and no other file
C27_NoStaleArtifacts ==
  Done =>
    /\ DOMAIN files =
         { written[k].path : k \in 1..Len(written) } \cup { ImageFile, RobotsFile, SitemapFile }
    /\ files[ImageFile].kind = "image"
    /\ files[RobotsFile] = robots_txt
    /\ HasSitemap
    /\ \A p \in PageFiles : \E k \in 1..Len(written) :
         written[k].path = p /\ written[k].page = files[p]

\* a cost build with one location, then a regular build with none: the
\* location pages of the first build are gone
C27_Witness ==
  /\ SecondDone
  /\ arg.SITE_MODE = "cost"
  /\ Len(arg.CITIES) = 1
  /\ DOMAIN arg.files # DOMAIN files
  /\ SITE_MODE = "regular"
  /\ CITIES = << >>
  /\ Cardinality(DOMAIN files) = 7

\* the position in urls, and so in sitemap.xml, of the page written k-th:
\* build_common writes Cost, How-To and Contact before the caller writes the
\* home page, and returns the list with "/" first
EntryOf(k) ==
  IF SITE_MODE = "regular_city_only" \/ k > 4 THEN k
  ELSE IF k = 4 THEN 1
  ELSE k + 1

\* C28: the canonical URL of every page a finished build wrote is the entry
\* sitemap.xml holds for that page, and both are canonical_for of the URL the
\* build collected for it
C28_CanonicalIsSitemapEntry ==
  Done =>
    /\ Len(Sitemap) = Len(written)
    /\ \A k \in 1..Len(written) :
         /\ written[k].page.canonical = Sitemap[EntryOf(k)]
         /\ Sitemap[EntryOf(k)] = esc(canonical_for(SITE_MODE, urls[EntryOf(k)]))

C28_Witness ==
  /\ Done
  /\ SITE_MODE = "regular"
  /\ SITE_ORIGIN = Origin_site
  /\ Len(CITIES) = 1
  /\ written[4].page.kind = "home"
  /\ written[4].page.canonical = Origin_site \o Slash
  /\ Sitemap[1] = Origin_site \o Slash
  /\ written[5].page.canonical = Origin_site \o << "/", "r", "e", "n", "o", "-", "n", "v", "/" >>
  /\ Sitemap[5] = written[5].page.canonical

(***************************************************************************)
(* canonical_for applied to its own result.  SITE_ORIGIN is whatever the   *)
(* environment holds, less trailing slashes: nothing checks its scheme.    *)
(***************************************************************************)
EnvAnyOrigins ==
  EnvSiteOrigins \cup { Host_site, upper(HttpsScheme) \o Host_site \o Slash }

InitTwiceCanonical ==
  /\ Idle
  /\ SITE_MODE \in ModeArgs
  /\ SITE_ORIGIN \in { NormOrigin(raw) : raw \in EnvAnyOrigins }
  /\ SUBDOMAIN_BASE = << >>
  /\ arg \in CanonicalArgs

CallCanonicalForTwice ==
  /\ pc = "call"
  /\ result' = [once |-> canonical_for(SITE_MODE, arg),
                twice |-> canonical_for(SITE_MODE, canonical_for(SITE_MODE, arg))]
  /\ Return

SpecTwiceCanonical == InitTwiceCanonical /\ [][CallCanonicalForTwice]_vars

\* C29: canonical_for of a result of canonical_for is that result, for every
\* value of SITE_ORIGIN, with or without a scheme
C29_CanonicalForIdempotent ==
  pc = "return" => result.twice = result.once

(***************************************************************************)
(* The links and canonicals of a location in subdomain mode, for origins   *)
(* with either scheme, with and without a path, and for two bases.         *)
(***************************************************************************)
Path_blog == << "/", "b", "l", "o", "g", "/" >>

EnvSchemeOrigins ==
  { << >>, HttpsScheme \o Host_site \o Slash, HttpScheme \o Host_site,
    HttpsScheme \o Host_site \o Path_blog }

EnvTwoBases == EnvSubdomainBases \cup { << " ", "." >> \o Host_site }

InitCityOrigin ==
  /\ Idle
  /\ SITE_MODE = "subdomain"
  /\ SITE_ORIGIN \in { NormOrigin(raw) : raw \in EnvSchemeOrigins }
  /\ SUBDOMAIN_BASE \in { NormSubdomainBase(raw) : raw \in EnvTwoBases }
  /\ arg \in { load_row(e) : e \in CsvRows }

\* what build_subdomain and homepage_html do with one catalog row
CallCityOrigin ==
  /\ pc = "call"
  /\ result' = [city_origin |-> abs_city_origin_subdomain(arg.city, arg.st),
                canonical |-> canonical_for(SITE_MODE,
                                            abs_city_origin_subdomain(arg.city, arg.st)),
                href |-> href_city(SITE_MODE, arg.city, arg.st)]
  /\ Return

SpecCityOrigin == InitCityOrigin /\ [][CallCityOrigin]_vars

\* the host of an origin: what follows its scheme, up to the first slash
HostOf(origin) ==
  LET rest == IF StartsWith(origin, HttpsScheme)
                THEN SubSeq(origin, Len(HttpsScheme) + 1, Len(origin))
                ELSE SubSeq(origin, Len(HttpScheme) + 1, Len(origin))
      cut == { k \in 1..Len(rest) : rest[k] = "/" } \cup { Len(rest) + 1 }
  IN  SubSeq(rest, 1, (CHOOSE k \in cut : \A m \in cut : k <= m) - 1)

\* C30: in subdomain mode the origin of a location is https://{slug}.{base}/
\* with a subdomain base, https://{slug}.{host of the site origin}/ with a
\* site origin and no base, and the relative path /{slug}/ with neither; the
\* link to the location and its canonical are that same text
C30_CityOriginDegrades ==
  pc = "return" =>
    LET slug == slugify(arg.city) \o Hyphen \o slugify(arg.st)
        expected ==
          IF SUBDOMAIN_BASE # << >>
            THEN HttpsScheme \o slug \o Dot \o SUBDOMAIN_BASE \o Slash
          ELSE IF SITE_ORIGIN # << >>
            THEN HttpsScheme \o slug \o Dot \o HostOf(SITE_ORIGIN) \o Slash
          ELSE Slash \o slug \o Slash
    IN  /\ result.city_origin = expected
        /\ result.href = expected
        /\ (SUBDOMAIN_BASE # << >> \/ SITE_ORIGIN # << >>) => result.canonical = expected
        /\ (SUBDOMAIN_BASE = << >> /\ SITE_ORIGIN = << >>) => result.canonical[1] = "/"

\* the origin has a path and http is not https: the host alone is used
C30_Witness ==
  /\ pc = "return"
  /\ SUBDOMAIN_BASE = << >>
  /\ SITE_ORIGIN = HttpsScheme \o Host_site \o << "/", "b", "l", "o", "g" >>
  /\ arg.city = City_Reno
  /\ result.canonical =
       << "h", "t", "t", "p", "s", ":", "/", "/", "r", "e", "n", "o", "-", "n", "v", ".",
          "s", "i", "t", "e", ".", "o", "r", "g", "/" >>

====
